---- MODULE Spec2Model ----
(***************************************************************************)
(* A model of powerlibs/contrib/clients/pipefy/client.py: the Pipefy REST  *)
(* client with its lazily loaded, memoized object graph (Pipe -> Phase ->  *)
(* Card) and the Pipe's bidirectional field cache.                         *)
(*                                                                         *)
(* Every public operation is one action.  An operation is a sequential     *)
(* piece of Python that may be cut short by an exception raised by the     *)
(* transport; the operators below thread a "world" record w through the    *)
(* statements of the operation, and every statement after a raised error   *)
(* (w.err) is skipped, which is how the exception unwinds the call stack.  *)
(* What was assigned before the raise stays assigned.                      *)
(***************************************************************************)
EXTENDS Integers, Sequences, FiniteSets, TLC

VARIABLES
    remote,            \* the remote Pipefy account: field labels, phase order
    pipe,              \* the Pipe object returned by get_pipe (id, data)
    field_cache,       \* Pipe._field_cache
    lru,               \* keys of get_phase's lru_cache
    phase_data,        \* per Phase object: the 'cards' entry of Phase.data
    phases_memo,       \* cached_property slot of Pipe.phases
    phase_cards_memo,  \* cached_property slot of Phase.cards, per Phase
    cards_memo,        \* cached_property slot of Pipe.cards
    values_memo,       \* cached_property slot of Card.values, per Card
    created,           \* the Cards returned by create_card, with their data
    calls,             \* number of HTTP calls issued, per remote resource
    failures,          \* number of non-success responses so far
    lastOp             \* the last operation: its requests and its outcome

vars == <<remote, pipe, field_cache, lru, phase_data, phases_memo,
          phase_cards_memo, cards_memo, values_memo, created, calls,
          failures, lastOp>>

----------------------------------------------------------------------------
(* Bounds of the model. *)

\* How many transport calls may answer with a non-success status in one run.
MaxFailures == 1

\* How many times create_card may be called in one run.
MaxCreates == 1

----------------------------------------------------------------------------
(* Values. *)

\* Python's None: what a function returns when it falls off its end.
None == "None"

\* What an operation "returns" when the transport error propagates.
HTTPError == "HTTPError"

EmptyMap == [k \in {} |-> None]

\* d[k] = v of a Python dict.
Put(d, k, v) == [x \in DOMAIN d \cup {k} |-> IF x = k THEN v ELSE d[x]]

Unset == [has |-> FALSE, val |-> <<>>]

Memo(v) == [has |-> TRUE, val |-> v]

Range(s) == {s[i] : i \in 1..Len(s)}

----------------------------------------------------------------------------
(* The remote account.  Phase 1 defines fields f1 and f2 and embeds its    *)
(* card list in the phase representation; phase 2 defines field f3 and     *)
(* gives its cards only through the listing endpoint.  Field ids identify  *)
(* fields; labels are human-readable names and may repeat.                 *)

PipeIds == {7}

PhaseIds == {1, 2}

FieldIds == {"f1", "f2", "f3"}

Labels == {"A", "B", "C"}

\* A label and a field id that no phase defines.
AbsentLabel == "Z"

AbsentId == "f9"

CardIds == {11, 12, 21}

\* Field labellings up to renaming of labels: all distinct, or some shared.
Labellings ==
    {l \in [FieldIds -> Labels] :
        /\ l["f1"] = "A"
        /\ l["f2"] \in {"A", "B"}
        /\ l["f3"] = "C" => l["f2"] = "B"}

\* The pipe lists its phases in workflow order, whatever their ids.
PhaseOrders == {<<1, 2>>, <<2, 1>>}

FieldIdsOf(phase_id) == IF phase_id = 1 THEN <<"f1", "f2">> ELSE <<"f3">>

\* GET /phases/{phase_id}.json -> data['fields']
PhaseFields(phase_id) ==
    [j \in 1..Len(FieldIdsOf(phase_id)) |->
        [id |-> FieldIdsOf(phase_id)[j],
         label |-> remote.labels[FieldIdsOf(phase_id)[j]]]]

\* Whether GET /phases/{phase_id}.json carries a 'cards' entry.
Embedded(phase_id) == phase_id = 1

\* The card stubs of a phase (embedded, or from GET /phases/{id}/cards.json).
RemoteCardList(phase_id) == IF phase_id = 1 THEN <<11, 12>> ELSE <<21>>

\* GET /cards/{card_id}
RemoteCardData(card_id) ==
    CASE card_id = 11 ->
           [other_phase_details |->
               << [field_values |-> << [field_id |-> "f1", value |-> "old1"],
                                       [field_id |-> "f2", value |-> "old2"] >>],
                  [field_values |-> << [field_id |-> "f3", value |-> "old3"] >>] >>,
            current_phase_detail |->
               [field_values |-> << [id |-> "f1", value |-> "new1"] >>]]
      [] card_id = 12 ->
           [other_phase_details |-> << >>,
            current_phase_detail |->
               [field_values |-> << [id |-> "f2", value |-> "new2"],
                                    [id |-> AbsentId, value |-> "lost"] >>]]
      [] card_id = 21 ->
           [other_phase_details |->
               << [field_values |-> << [field_id |-> "f1", value |-> "old1"] >>] >>,
            current_phase_detail |->
               [field_values |-> << [id |-> "f3", value |-> "new3"],
                                    [id |-> "f2", value |-> "new2"] >>]]
      \* the representation of a card made by create_card
      [] OTHER ->
           [other_phase_details |-> << >>,
            current_phase_detail |->
               [field_values |-> << [id |-> "f1", value |-> "new1"] >>]]

\* The resources whose HTTP calls are counted.
Resources ==
    {<<"pipe", i>> : i \in PipeIds} \cup {<<"phase", p>> : p \in PhaseIds}
    \cup {<<"listing", p>> : p \in PhaseIds} \cup {<<"card", c>> : c \in CardIds}
    \cup {<<"create_card", i>> : i \in PipeIds}

----------------------------------------------------------------------------
(* The transport. *)

\* The world an operation starts in; failAt numbers the request of this
\* operation that the remote answers with a non-success status (0: none).
World(failAt) ==
    [field_cache |-> field_cache, lru |-> lru, phase_data |-> phase_data,
     phases_memo |-> phases_memo, phase_cards_memo |-> phase_cards_memo,
     cards_memo |-> cards_memo, values_memo |-> values_memo, calls |-> calls,
     reqs |-> <<>>, err |-> FALSE, failAt |-> failAt, ret |-> None,
     found |-> FALSE, scanned |-> <<>>, the_values |-> EmptyMap,
     field_values |-> <<>>]

\* An http_request that logs a non-success response and returns it.
http_request_NoRaise(w, method, kind, id, body) ==
    IF w.err THEN w
    ELSE LET ok == Len(w.reqs) + 1 # w.failAt
             r  == [method |-> method, kind |-> kind, id |-> id,
                    body |-> body, ok |-> ok]
         IN [w EXCEPT !.reqs = Append(@, r),
                      !.calls = IF <<kind, id>> \in DOMAIN @
                                THEN [@ EXCEPT ![<<kind, id>>] = @ + 1]
                                ELSE @]

\* PipefyClient.http_request: one HTTP call; raise_for_status raises on a
\* non-success response and the error is re-raised after logging.
http_request(w, method, kind, id, body) ==
    IF w.err THEN w
    ELSE LET ok == Len(w.reqs) + 1 # w.failAt
             r  == [method |-> method, kind |-> kind, id |-> id,
                    body |-> body, ok |-> ok]
         IN [w EXCEPT !.reqs = Append(@, r),
                      !.err = ~ok,
                      !.calls = IF <<kind, id>> \in DOMAIN @
                                THEN [@ EXCEPT ![<<kind, id>>] = @ + 1]
                                ELSE @]

\* PipefyClient.get
get(w, kind, id) == http_request(w, "GET", kind, id, <<>>)

\* PipefyClient.post
post(w, kind, id, data) == http_request(w, "POST", kind, id, data)

----------------------------------------------------------------------------
(* Pipe.get_phase and Pipe.phases. *)

\* A get_phase without its lru_cache.
get_phase_Uncached(w, phase_id) ==
    IF w.err THEN w
    ELSE LET w1 == get(w, "phase", phase_id)
         IN IF w1.err THEN w1
            ELSE [w1 EXCEPT
                    !.lru = @ \cup {phase_id},
                    !.phase_data[phase_id] =
                        IF Embedded(phase_id)
                        THEN Memo(RemoteCardList(phase_id)) ELSE Unset,
                    !.phase_cards_memo[phase_id] = Unset,
                    !.ret = phase_id]

\* Pipe.get_phase under functools.lru_cache(128): cached per phase_id; a
\* miss fetches the phase and builds a new Phase object around the response
\* (nothing is cached when the fetch raises).  The pipe has fewer phases
\* than the cache has room for, so no key is ever evicted and the cache is
\* the set of its keys.
get_phase(w, phase_id) ==
    IF w.err THEN w
    ELSE IF phase_id \in w.lru
    THEN [w EXCEPT !.ret = phase_id]
    ELSE LET w1 == get(w, "phase", phase_id)
         IN IF w1.err THEN w1
            ELSE [w1 EXCEPT
                    !.lru = @ \cup {phase_id},
                    !.phase_data[phase_id] =
                        IF Embedded(phase_id)
                        THEN Memo(RemoteCardList(phase_id)) ELSE Unset,
                    !.phase_cards_memo[phase_id] = Unset,
                    !.ret = phase_id]

RECURSIVE LoadPhases(_, _, _)
\* [self.get_phase(x['id']) for x in self.data['phases']]
LoadPhases(w, ids, i) ==
    IF w.err \/ i > Len(ids) THEN w
    ELSE LoadPhases(get_phase(w, ids[i]), ids, i + 1)

\* A phases that keeps the phases loaded before the error.
phases_KeepsPartial(w) ==
    IF w.err THEN w
    ELSE IF w.phases_memo.has THEN [w EXCEPT !.ret = w.phases_memo.val]
    ELSE LET w1 == LoadPhases(w, pipe.data, 1)
             got == SelectSeq(pipe.data, LAMBDA x : x \in w1.lru)
         IN [w1 EXCEPT !.phases_memo = Memo(got), !.ret = got]

\* Pipe.phases (cached_property: the slot is set only when the body returns).
phases(w) ==
    IF w.err THEN w
    ELSE IF w.phases_memo.has THEN [w EXCEPT !.ret = w.phases_memo.val]
    ELSE LET w1 == LoadPhases(w, pipe.data, 1)
         IN IF w1.err THEN w1
            ELSE [w1 EXCEPT !.phases_memo = Memo(pipe.data), !.ret = pipe.data]

----------------------------------------------------------------------------
(* Phase.cards and Pipe.cards. *)

\* Card(self.pipe, card_id, response.json())
Card(pipe_id, card_id) == [identifier |-> card_id, pipe |-> pipe_id]

RECURSIVE FetchCards(_, _, _, _)
\* for card_data in self.data['cards']: fetch the card, append a Card
FetchCards(w, stubs, i, cards) ==
    IF w.err THEN w
    ELSE IF i > Len(stubs) THEN [w EXCEPT !.ret = cards]
    ELSE FetchCards(get(w, "card", stubs[i]), stubs, i + 1,
                    Append(cards, Card(pipe.id, stubs[i])))

\* A Phase.cards that fetches the listing whatever the data holds.
FetchListing_Always(w, phase_id) ==
    IF w.err THEN w
    ELSE LET w1 == get(w, "listing", phase_id)
         IN IF w1.err THEN w1
            ELSE [w1 EXCEPT !.phase_data[phase_id] = Memo(RemoteCardList(phase_id))]

\* The 'if cards not in self.data' statement of Phase.cards: the listing is
\* fetched and stored in the Phase's data.
FetchListing(w, phase_id) ==
    IF w.err \/ w.phase_data[phase_id].has THEN w
    ELSE LET w1 == get(w, "listing", phase_id)
         IN IF w1.err THEN w1
            ELSE [w1 EXCEPT !.phase_data[phase_id] = Memo(RemoteCardList(phase_id))]

\* Phase.cards (cached_property)
phase_cards(w, phase_id) ==
    IF w.err THEN w
    ELSE IF w.phase_cards_memo[phase_id].has
    THEN [w EXCEPT !.ret = w.phase_cards_memo[phase_id].val]
    ELSE LET w1 == FetchListing(w, phase_id)
             w2 == FetchCards(w1, w1.phase_data[phase_id].val, 1, <<>>)
         IN IF w2.err THEN w2
            ELSE [w2 EXCEPT !.phase_cards_memo[phase_id] = Memo(w2.ret)]

RECURSIVE CollectCards(_, _, _, _)
\* for phase in self.phases: for card in phase.cards: cards.append(card)
CollectCards(w, ps, i, cards) ==
    IF w.err THEN w
    ELSE IF i > Len(ps) THEN [w EXCEPT !.ret = cards]
    ELSE LET w1 == phase_cards(w, ps[i])
         IN IF w1.err THEN w1
            ELSE CollectCards(w1, ps, i + 1, cards \o w1.ret)

\* A Pipe.cards that walks the phases by ascending id.
pipe_cards_ByPhaseId(w) ==
    IF w.err THEN w
    ELSE IF w.cards_memo.has THEN [w EXCEPT !.ret = w.cards_memo.val]
    ELSE LET w1 == phases(w)
             byId == [i \in 1..Cardinality(PhaseIds) |-> i]
             w2 == IF w1.err THEN w1 ELSE CollectCards(w1, byId, 1, <<>>)
         IN IF w2.err THEN w2
            ELSE [w2 EXCEPT !.cards_memo = Memo(w2.ret)]

\* Pipe.cards (cached_property)
pipe_cards(w) ==
    IF w.err THEN w
    ELSE IF w.cards_memo.has THEN [w EXCEPT !.ret = w.cards_memo.val]
    ELSE LET w1 == phases(w)
             w2 == IF w1.err THEN w1 ELSE CollectCards(w1, w1.ret, 1, <<>>)
         IN IF w2.err THEN w2
            ELSE [w2 EXCEPT !.cards_memo = Memo(w2.ret)]

----------------------------------------------------------------------------
(* The field cache: Pipe.get_field_id_by_label, Pipe.get_field_label_by_id. *)

\* A slip in the second assignment: the id is cached under itself.
CacheField_IdUnderItself(cache, field_data) ==
    Put(Put(cache, field_data.label, field_data.id),
        field_data.id, field_data.id)

\* The two assignments to self._field_cache for one field_data.
CacheField(cache, field_data) ==
    Put(Put(cache, field_data.label, field_data.id),
        field_data.id, field_data.label)

RECURSIVE ScanFields(_, _, _, _, _)
\* for field_data in phase.data['fields']: cache it both ways and return
\* as soon as field_data[by] is the key looked for.
ScanFields(w, fields, j, by, key) ==
    IF j > Len(fields) THEN w
    ELSE LET w1 == [w EXCEPT !.field_cache = CacheField(@, fields[j])]
         IN IF fields[j][by] = key
            THEN [w1 EXCEPT !.found = TRUE, !.ret = w1.field_cache[key]]
            ELSE ScanFields(w1, fields, j + 1, by, key)

RECURSIVE ScanPhases(_, _, _, _, _)
\* for phase in self.phases: ...; falling off the end returns None.
ScanPhases(w, ps, i, by, key) ==
    IF i > Len(ps) THEN [w EXCEPT !.ret = None]
    ELSE LET w1 == ScanFields([w EXCEPT !.scanned = Append(@, ps[i])],
                              PhaseFields(ps[i]), 1, by, key)
         IN IF w1.found THEN w1 ELSE ScanPhases(w1, ps, i + 1, by, key)

\* A lookup that fails loudly when no phase defines the key.
Lookup_KeyError(w, by, key) ==
    IF w.err THEN w
    ELSE IF key \in DOMAIN w.field_cache
    THEN [w EXCEPT !.ret = w.field_cache[key]]
    ELSE LET w1 == phases(w)
             w2 == ScanPhases([w1 EXCEPT !.found = FALSE], w1.ret, 1, by, key)
         IN IF w1.err THEN w1
            ELSE IF w2.found THEN w2 ELSE [w2 EXCEPT !.ret = "KeyError"]

\* The body shared by the two lookups: cache hit, else scan self.phases.
Lookup(w, by, key) ==
    IF w.err THEN w
    ELSE IF key \in DOMAIN w.field_cache
    THEN [w EXCEPT !.ret = w.field_cache[key]]
    ELSE LET w1 == phases(w)
         IN IF w1.err THEN w1
            ELSE ScanPhases([w1 EXCEPT !.found = FALSE], w1.ret, 1, by, key)

\* Pipe.get_field_id_by_label
get_field_id_by_label(w, label) == Lookup(w, "label", label)

\* Pipe.get_field_label_by_id
get_field_label_by_id(w, id) == Lookup(w, "id", id)

----------------------------------------------------------------------------
(* Card.values. *)

RECURSIVE MergeFieldValues(_, _, _, _)
\* for field_value in ...['field_values']:
\*     the_values[get_field_label_by_id(field_value[key])] = field_value['value']
MergeFieldValues(w, fvs, j, key) ==
    IF w.err \/ j > Len(fvs) THEN w
    ELSE LET w1 == get_field_label_by_id(w, fvs[j][key])
         IN IF w1.err THEN w1
            ELSE MergeFieldValues(
                    [w1 EXCEPT !.the_values = Put(@, w1.ret, fvs[j].value)],
                    fvs, j + 1, key)

RECURSIVE MergeDetails(_, _, _)
\* for phase_details in self.data['other_phase_details']: ...
MergeDetails(w, details, i) ==
    IF w.err \/ i > Len(details) THEN w
    ELSE MergeDetails(MergeFieldValues(w, details[i].field_values, 1, "field_id"),
                      details, i + 1)

\* A Card.values that merges the current phase first and the history last.
card_values_HistoryLast(w, card_id) ==
    IF w.err THEN w
    ELSE IF card_id \in DOMAIN w.values_memo
    THEN [w EXCEPT !.ret = w.values_memo[card_id]]
    ELSE LET data == RemoteCardData(card_id)
             w1 == MergeFieldValues([w EXCEPT !.the_values = EmptyMap],
                                    data.current_phase_detail.field_values,
                                    1, "id")
             w2 == MergeDetails(w1, data.other_phase_details, 1)
         IN IF w2.err THEN w2
            ELSE [w2 EXCEPT !.values_memo = Put(@, card_id, w2.the_values),
                            !.ret = w2.the_values]

\* Card.values (cached_property): history first, then the current phase.
card_values(w, card_id) ==
    IF w.err THEN w
    ELSE IF card_id \in DOMAIN w.values_memo
    THEN [w EXCEPT !.ret = w.values_memo[card_id]]
    ELSE LET data == RemoteCardData(card_id)
             w1 == MergeDetails([w EXCEPT !.the_values = EmptyMap],
                                data.other_phase_details, 1)
             w2 == MergeFieldValues(w1, data.current_phase_detail.field_values,
                                    1, "id")
         IN IF w2.err THEN w2
            ELSE [w2 EXCEPT !.values_memo = Put(@, card_id, w2.the_values),
                            !.ret = w2.the_values]

----------------------------------------------------------------------------
(* Pipe.create_card. *)

RECURSIVE BuildFieldValues(_, _, _)
\* for key, value in values.items(): resolve the label, append the pair
BuildFieldValues(w, items, i) ==
    IF w.err \/ i > Len(items) THEN w
    ELSE LET w1 == get_field_id_by_label(w, items[i][1])
         IN IF w1.err THEN w1
            ELSE BuildFieldValues(
                    [w1 EXCEPT !.field_values =
                        Append(@, [field_id |-> w1.ret, value |-> items[i][2]])],
                    items, i + 1)

\* A create_card that posts the labels as they came, unresolved.
create_card_Unresolved(w, card_title, values, response_id) ==
    LET payload == [card |-> [title |-> card_title,
                              field_values |->
                                [i \in 1..Len(values) |->
                                    [field_id |-> values[i][1],
                                     value |-> values[i][2]]]]]
        w2 == post(w, "create_card", pipe.id, payload)
    IN IF w2.err THEN w2 ELSE [w2 EXCEPT !.ret = Card(pipe.id, response_id)]

\* The payload, the POST, and the Card around the response.
create_card(w, card_title, values, response_id) ==
    LET w1 == BuildFieldValues([w EXCEPT !.field_values = <<>>], values, 1)
        payload == [card |-> [title |-> card_title,
                              field_values |-> w1.field_values]]
        w2 == post(w1, "create_card", pipe.id, payload)
    IN IF w2.err THEN w2 ELSE [w2 EXCEPT !.ret = Card(pipe.id, response_id)]

\* The ids the remote gives to created cards.
NewCardId(n) == 90 + n

\* The dicts passed to create_card, as their items in insertion order.
ValueDicts ==
    { <<>>,
      << <<"A", "v1">> >>,
      << <<"B", "v1">>, <<"A", "v2">> >>,
      << <<"A", "v1">>, <<AbsentLabel, "v2">> >> }

----------------------------------------------------------------------------
(* The state machine. *)

\* The requests of an operation that may fail: any one of those it issues
\* when none fails (n of them), or none.
FailPoints(n) == IF failures < MaxFailures THEN 0..n ELSE {0}

\* How many requests the operation op issues when none fails.
Requests(w) == Len(w.reqs)

\* The world an operation leaves behind, and the record of the operation.
Commit(w, op, arg) ==
    /\ field_cache' = w.field_cache
    /\ lru' = w.lru
    /\ phase_data' = w.phase_data
    /\ phases_memo' = w.phases_memo
    /\ phase_cards_memo' = w.phase_cards_memo
    /\ cards_memo' = w.cards_memo
    /\ values_memo' = w.values_memo
    /\ calls' = w.calls
    /\ failures' = IF w.err THEN failures + 1 ELSE failures
    /\ lastOp' = [op |-> op, arg |-> arg, reqs |-> w.reqs, err |-> w.err,
                  ret |-> IF w.err THEN HTTPError ELSE w.ret,
                  scanned |-> w.scanned]

Init ==
    /\ remote \in [labels : Labellings, phases : PhaseOrders]
    /\ pipe = [built |-> FALSE, id |-> None, data |-> <<>>]
    /\ field_cache = EmptyMap
    /\ lru = {}
    /\ phase_data = [p \in PhaseIds |-> Unset]
    /\ phases_memo = Unset
    /\ phase_cards_memo = [p \in PhaseIds |-> Unset]
    /\ cards_memo = Unset
    /\ values_memo = EmptyMap
    /\ created = <<>>
    /\ calls = [r \in Resources |-> 0]
    /\ failures = 0
    /\ lastOp = [op |-> "init", arg |-> None, reqs |-> <<>>, err |-> FALSE,
                 ret |-> None, scanned |-> <<>>]

\* PipefyClient.get_pipe
get_pipe(pipe_id) ==
    /\ ~pipe.built
    /\ \E failAt \in FailPoints(1) :
         LET w == get(World(failAt), "pipe", pipe_id)
         IN /\ pipe' = IF w.err THEN pipe
                       ELSE [built |-> TRUE, id |-> pipe_id, data |-> remote.phases]
            /\ Commit([w EXCEPT !.ret = pipe_id], "get_pipe", pipe_id)
    /\ UNCHANGED <<remote, created>>

\* pipe.get_phase(phase_id), called by the user of the library
GetPhase(phase_id) ==
    /\ pipe.built
    /\ \E failAt \in FailPoints(Requests(get_phase(World(0), phase_id))) :
         Commit(get_phase(World(failAt), phase_id), "get_phase", phase_id)
    /\ UNCHANGED <<remote, pipe, created>>

\* pipe.phases
PipePhases ==
    /\ pipe.built
    /\ \E failAt \in FailPoints(Requests(phases(World(0)))) :
         Commit(phases(World(failAt)), "pipe.phases", None)
    /\ UNCHANGED <<remote, pipe, created>>

\* phase.cards on a Phase object the caller got from get_phase or phases
PhaseCards(phase_id) ==
    /\ pipe.built
    /\ phase_id \in lru
    /\ \E failAt \in FailPoints(Requests(phase_cards(World(0), phase_id))) :
         Commit(phase_cards(World(failAt), phase_id), "phase.cards", phase_id)
    /\ UNCHANGED <<remote, pipe, created>>

\* pipe.cards
PipeCards ==
    /\ pipe.built
    /\ \E failAt \in FailPoints(Requests(pipe_cards(World(0)))) :
         Commit(pipe_cards(World(failAt)), "pipe.cards", None)
    /\ UNCHANGED <<remote, pipe, created>>

\* pipe.get_field_id_by_label(label)
GetFieldIdByLabel(label) ==
    /\ pipe.built
    /\ \E failAt \in FailPoints(Requests(get_field_id_by_label(World(0), label))) :
         Commit(get_field_id_by_label(World(failAt), label),
                "get_field_id_by_label", label)
    /\ UNCHANGED <<remote, pipe, created>>

\* pipe.get_field_label_by_id(id)
GetFieldLabelById(id) ==
    /\ pipe.built
    /\ \E failAt \in FailPoints(Requests(get_field_label_by_id(World(0), id))) :
         Commit(get_field_label_by_id(World(failAt), id),
                "get_field_label_by_id", id)
    /\ UNCHANGED <<remote, pipe, created>>

\* The Card objects the caller can hold.
HeldCards ==
    UNION {{c.identifier : c \in Range(phase_cards_memo[p].val)} : p \in PhaseIds}
    \cup {c.identifier : c \in Range(created)}

\* card.values
CardValues(card_id) ==
    /\ pipe.built
    /\ card_id \in HeldCards
    /\ \E failAt \in FailPoints(Requests(card_values(World(0), card_id))) :
         Commit(card_values(World(failAt), card_id), "card.values", card_id)
    /\ UNCHANGED <<remote, pipe, created>>

\* pipe.create_card(card_title, values)
CreateCard(card_title, values) ==
    /\ pipe.built
    /\ Len(created) < MaxCreates
    /\ LET response_id == NewCardId(Len(created) + 1)
       IN \E failAt \in FailPoints(Requests(
                create_card(World(0), card_title, values, response_id))) :
            LET w == create_card(World(failAt), card_title, values, response_id)
            IN /\ created' = IF w.err THEN created ELSE Append(created, w.ret)
               /\ Commit(w, "create_card", values)
    /\ UNCHANGED <<remote, pipe>>

Methods == {"GET", "POST", "PATCH", "PUT", "DELETE"}

\* client.get / post / patch / put / delete on some other endpoint
ClientCall(method) ==
    /\ \E failAt \in FailPoints(1) :
         Commit(http_request(World(failAt), method, "other", 0, <<>>),
                "client", method)
    /\ UNCHANGED <<remote, pipe, created>>

Next ==
    \/ \E i \in PipeIds : get_pipe(i)
    \/ \E p \in PhaseIds : GetPhase(p)
    \/ PipePhases
    \/ \E p \in PhaseIds : PhaseCards(p)
    \/ PipeCards
    \/ \E l \in Labels \cup {AbsentLabel} : GetFieldIdByLabel(l)
    \/ \E i \in FieldIds \cup {AbsentId} : GetFieldLabelById(i)
    \/ \E c \in HeldCards : CardValues(c)
    \/ \E v \in ValueDicts : CreateCard("title", v)
    \/ \E m \in Methods : ClientCall(m)

Spec == Init /\ [][Next]_vars

\* A caller that loads and reads the object graph.
NextLoad ==
    \/ \E i \in PipeIds : get_pipe(i)
    \/ \E p \in PhaseIds : GetPhase(p)
    \/ PipePhases
    \/ \E p \in PhaseIds : PhaseCards(p)
    \/ PipeCards
    \/ \E c \in HeldCards : CardValues(c)
    \/ \E m \in Methods : ClientCall(m)

SpecLoad == Init /\ [][NextLoad]_vars

\* A caller that resolves fields and creates cards.
NextFields ==
    \/ \E i \in PipeIds : get_pipe(i)
    \/ PipePhases
    \/ \E l \in Labels \cup {AbsentLabel} : GetFieldIdByLabel(l)
    \/ \E i \in FieldIds \cup {AbsentId} : GetFieldLabelById(i)
    \/ \E c \in HeldCards : CardValues(c)
    \/ \E v \in ValueDicts : CreateCard("title", v)

SpecFields == Init /\ [][NextFields]_vars

----------------------------------------------------------------------------
(* Vocabulary of the properties. *)

\* The labels and ids that some phase of the pipe defines.
DefinedLabels == {remote.labels[f] : f \in FieldIds}

\* The field ids whose label no other field carries.
UniquelyLabelled == {f \in FieldIds :
                        \A g \in FieldIds : remote.labels[g] = remote.labels[f] => g = f}

\* The label of a field id in the remote account, None for an unknown id.
LabelOf(id) == IF id \in FieldIds THEN remote.labels[id] ELSE None

IsLookup(o) == o.op \in {"get_field_id_by_label", "get_field_label_by_id"}

\* The lookup o asked for a key that no phase defines.
AbsentKey(o) ==
    \/ o.op = "get_field_id_by_label" /\ o.arg \notin DefinedLabels
    \/ o.op = "get_field_label_by_id" /\ o.arg \notin FieldIds

AllOk(reqs) == \A i \in 1..Len(reqs) : reqs[i].ok

\* label -> id -> label, and id -> label -> id, from the current state.
LabelRoundTrip(label) ==
    LET w1 == get_field_id_by_label(World(0), label)
        w2 == get_field_label_by_id(w1, w1.ret)
    IN w2.ret

IdRoundTrip(id) ==
    LET w1 == get_field_label_by_id(World(0), id)
        w2 == get_field_id_by_label(w1, w1.ret)
    IN w2.ret

----------------------------------------------------------------------------
(* C1: the two lookups are inverses. *)

\* C1 as stated: in every state reached by any sequence of lookups, every
\* defined label L satisfies label_by_id(id_by_label(L)) = L and every
\* defined field id I satisfies id_by_label(label_by_id(I)) = I.
C1_Inverses ==
    pipe.built =>
        /\ \A l \in DefinedLabels : LabelRoundTrip(l) = l
        /\ \A i \in FieldIds : IdRoundTrip(i) = i

\* C1 as amended: label -> id -> label gives the label back for every
\* defined label; id -> label -> id gives the id back for every field id
\* whose label no other field carries.
C1_InversesUniqueLabels ==
    pipe.built =>
        /\ \A l \in DefinedLabels : LabelRoundTrip(l) = l
        /\ \A i \in UniquelyLabelled : IdRoundTrip(i) = i

\* Lookups have run and filled the cache both ways for a pipe that has
\* both a uniquely labelled field and two fields sharing a label.
C1_Witness ==
    /\ IsLookup(lastOp) /\ ~lastOp.err
    /\ UniquelyLabelled # {} /\ UniquelyLabelled # FieldIds
    /\ FieldIds \subseteq DOMAIN field_cache
    /\ DefinedLabels \subseteq DOMAIN field_cache

----------------------------------------------------------------------------
(* C6: a lookup of an absent key. *)

\* C6: a lookup of a label (an id) that no phase defines, none of whose
\* requests fails, returns None without raising after visiting every phase
\* of the pipe exactly once, in order.
C6_AbsentKeyReturnsNone ==
    (IsLookup(lastOp) /\ AbsentKey(lastOp) /\ AllOk(lastOp.reqs))
        => /\ ~lastOp.err
           /\ lastOp.ret = None
           /\ lastOp.scanned = pipe.data

C6_Witness ==
    /\ lastOp.op = "get_field_id_by_label" /\ lastOp.arg = AbsentLabel
    /\ lastOp.ret = None /\ Len(lastOp.scanned) = Cardinality(PhaseIds)
    /\ field_cache # EmptyMap

----------------------------------------------------------------------------
(* C7: the field cache is never evicted or refreshed. *)

\* C7: a key of the field cache stays in the cache, mapped to the same
\* value, over every step.
C7_CacheNeverRefreshed ==
    [][\A k \in DOMAIN field_cache :
          k \in DOMAIN field_cache' /\ field_cache'[k] = field_cache[k]]_vars

----------------------------------------------------------------------------
(* C3: create_card. *)

Posts(reqs) == {i \in 1..Len(reqs) : reqs[i].method = "POST"}

RECURSIVE Resolved(_, _, _)
\* The ids the label resolver gives, one call after the other from world
\* w, for the labels of items i, i + 1, ...
Resolved(w, items, i) ==
    IF i > Len(items) THEN <<>>
    ELSE LET w1 == get_field_id_by_label(w, items[i][1])
         IN <<w1.ret>> \o Resolved(w1, items, i + 1)

\* C3: a create_card(title, values) that returns has issued exactly one
\* POST, its last request, to the pipe's create_card endpoint, with body
\* {card: {title, field_values}} where field_values has one {field_id,
\* value} entry per pair of values, in order, field_id being what
\* get_field_id_by_label gives for the label at that point (the id of a
\* field carrying that label, None for a label no phase defines); and it
\* returns a Card whose identifier is the id of the response.  A
\* create_card that fails has issued at most one POST.
C3_CreateCard ==
    [][ lastOp'.op = "create_card" =>
          LET o == lastOp'
              values == o.arg
          IN /\ Cardinality(Posts(o.reqs)) <= 1
             /\ ~o.err =>
                  LET post_req == o.reqs[Len(o.reqs)]
                      fvs == post_req.body.card.field_values
                  IN /\ Posts(o.reqs) = {Len(o.reqs)}
                     /\ post_req.kind = "create_card" /\ post_req.id = pipe.id
                     /\ DOMAIN post_req.body = {"card"}
                     /\ DOMAIN post_req.body.card = {"title", "field_values"}
                     /\ post_req.body.card.title = "title"
                     /\ Len(fvs) = Len(values)
                     /\ \A i \in 1..Len(values) :
                          /\ fvs[i].value = values[i][2]
                          /\ fvs[i].field_id = Resolved(World(0), values, 1)[i]
                          /\ IF values[i][1] \in DefinedLabels
                             THEN /\ fvs[i].field_id \in FieldIds
                                  /\ remote.labels[fvs[i].field_id] = values[i][1]
                             ELSE fvs[i].field_id = None
                     /\ o.ret.identifier = NewCardId(Len(created) + 1)
                     /\ o.ret.pipe = pipe.id
                     /\ created' = Append(created, o.ret) ]_vars

\* A card was created from two pairs, one label resolved to a field id and
\* one resolved to None, and the POST was the only request.
C3_Witness ==
    /\ lastOp.op = "create_card" /\ ~lastOp.err
    /\ Len(lastOp.arg) = 2
    /\ Len(lastOp.reqs) = 1
    /\ lastOp.reqs[1].body.card.field_values[1].field_id \in FieldIds
    /\ lastOp.reqs[1].body.card.field_values[2].field_id = None
    /\ lastOp.ret.identifier = NewCardId(1)

----------------------------------------------------------------------------
(* Vocabulary of the loading properties. *)

\* What a request asks for, whatever came back.
Shape(reqs) ==
    [i \in 1..Len(reqs) |-> <<reqs[i].method, reqs[i].kind, reqs[i].id>>]

Pos(seq, x) == CHOOSE i \in 1..Len(seq) : seq[i] = x

IsPrefix(a, b) == Len(a) <= Len(b) /\ a = SubSeq(b, 1, Len(a))

\* The Phase object exists and its cards are loaded.
CardsLoaded(p) == p \in lru /\ phase_cards_memo[p].has

\* Whether loading the cards of phase p now would call the listing.
NeedsListing(p) == IF p \in lru THEN ~phase_data[p].has ELSE ~Embedded(p)

\* The fetches of a card load of phase p: the listing if the data lacks
\* the card list, then one card after the other.
CardLoad(p) ==
    (IF NeedsListing(p) THEN << <<"GET", "listing", p>> >> ELSE <<>>)
    \o [i \in 1..Len(RemoteCardList(p)) |-> <<"GET", "card", RemoteCardList(p)[i]>>]

\* The fetches of a phases load: the phases get_phase has not cached.
PhasesLoad ==
    LET missing == SelectSeq(pipe.data, LAMBDA p : p \notin lru)
    IN [i \in 1..Len(missing) |-> <<"GET", "phase", missing[i]>>]

RECURSIVE CardLoads(_)
CardLoads(ps) ==
    IF ps = <<>> THEN <<>>
    ELSE (IF CardsLoaded(Head(ps)) THEN <<>> ELSE CardLoad(Head(ps)))
         \o CardLoads(Tail(ps))

\* The fetches that an access to each lazy property has left to issue.
PipePhasesFetches == IF phases_memo.has THEN <<>> ELSE PhasesLoad

PhaseCardsFetches(p) == IF CardsLoaded(p) THEN <<>> ELSE CardLoad(p)

PipeCardsFetches ==
    IF cards_memo.has THEN <<>> ELSE PipePhasesFetches \o CardLoads(pipe.data)

\* The fetches that the access op (of phase arg, for phase.cards) issues
\* from the current state when no request fails.
NextFetches(op, arg) ==
    CASE op = "pipe.phases" -> Shape(phases(World(0)).reqs)
      [] op = "phase.cards" -> Shape(phase_cards(World(0), arg).reqs)
      [] op = "pipe.cards" -> Shape(pipe_cards(World(0)).reqs)

\* The same, told from what the caches hold.
FetchesLeft(op, arg) ==
    CASE op = "pipe.phases" -> PipePhasesFetches
      [] op = "phase.cards" -> PhaseCardsFetches(arg)
      [] op = "pipe.cards" -> PipeCardsFetches

LoadOps == {"pipe.phases", "phase.cards", "pipe.cards"}

LoadArgs(op) == IF op = "phase.cards" THEN PhaseIds ELSE {None}

\* The memo slot of the property that the access reads.
SlotSet(op, arg) ==
    CASE op = "pipe.phases" -> phases_memo.has
      [] op = "phase.cards" -> phase_cards_memo[arg].has
      [] op = "pipe.cards" -> cards_memo.has

\* The cards of the pipe, phase after phase as the pipe lists them.
PhaseOfCard(c) == CHOOSE p \in PhaseIds : c \in Range(RemoteCardList(p))

----------------------------------------------------------------------------
(* C2: memoization. *)

C2_CountsWhenNoFailure ==
    failures = 0 =>
        /\ \A r \in Resources : calls[r] <= 1
        /\ phases_memo.has => \A p \in Range(pipe.data) : calls[<<"phase", p>>] = 1
        /\ \A p \in PhaseIds : CardsLoaded(p) =>
              /\ calls[<<"phase", p>>] = 1
              /\ calls[<<"listing", p>>] = (IF Embedded(p) THEN 0 ELSE 1)
              /\ \A c \in Range(RemoteCardList(p)) : calls[<<"card", c>>] = 1
        /\ cards_memo.has => \A c \in CardIds : calls[<<"card", c>>] = 1

C2_MemoizedAccess ==
    LET o == lastOp'
    IN /\ (o.op = "pipe.phases" /\ phases_memo.has)
            => o.reqs = <<>> /\ o.ret = phases_memo.val /\ calls' = calls
       /\ (o.op = "phase.cards" /\ phase_cards_memo[o.arg].has)
            => o.reqs = <<>> /\ o.ret = phase_cards_memo[o.arg].val /\ calls' = calls
       /\ (o.op = "pipe.cards" /\ cards_memo.has)
            => o.reqs = <<>> /\ o.ret = cards_memo.val /\ calls' = calls
       /\ (o.op = "card.values" /\ o.arg \in DOMAIN values_memo)
            => o.reqs = <<>> /\ o.ret = values_memo[o.arg] /\ calls' = calls
       /\ phases_memo.has => phases_memo' = phases_memo
       /\ cards_memo.has => cards_memo' = cards_memo
       /\ \A p \in PhaseIds :
            phase_cards_memo[p].has => phase_cards_memo'[p] = phase_cards_memo[p]
       /\ \A c \in DOMAIN values_memo :
            c \in DOMAIN values_memo' /\ values_memo'[c] = values_memo[c]

\* C2: while no transport call has failed, each phase, each phase's card
\* listing and each card has been fetched at most once, and exactly once
\* (the listing: never when the list came embedded) once the property that
\* needs it is loaded; an access to pipe.phases, phase.cards, pipe.cards or
\* card.values whose memo slot is set issues no request and returns the
\* memoized value, and a set slot never changes.
C2_FetchedOnce == []C2_CountsWhenNoFailure /\ [][C2_MemoizedAccess]_vars

\* pipe.cards was read again after everything was loaded without a failure:
\* no request, and every resource stands at one call.
C2_Witness ==
    /\ failures = 0 /\ cards_memo.has /\ phases_memo.has
    /\ lastOp.op = "pipe.cards" /\ lastOp.reqs = <<>>
    /\ \A p \in PhaseIds : calls[<<"phase", p>>] = 1
    /\ \A c \in CardIds : calls[<<"card", c>>] = 1
    /\ DOMAIN values_memo # {}

----------------------------------------------------------------------------
(* C8: pipe.cards. *)

\* C8: once loaded, pipe.cards holds every card of every phase once, card a
\* before card b exactly when a's phase comes before b's phase in the
\* pipe's data, or they share a phase and a comes before b in that phase's
\* card list; each card is the Card object of its phase's cards.
C8_PipeCardsOrder ==
    cards_memo.has =>
        LET cs == cards_memo.val
            id(i) == cs[i].identifier
            ph(i) == Pos(pipe.data, PhaseOfCard(id(i)))
        IN /\ Len(cs) = Cardinality(CardIds)
           /\ {id(i) : i \in 1..Len(cs)} = CardIds
           /\ \A i, j \in 1..Len(cs) :
                i < j <=> \/ ph(i) < ph(j)
                          \/ /\ ph(i) = ph(j)
                             /\ Pos(RemoteCardList(PhaseOfCard(id(i))), id(i))
                                  < Pos(RemoteCardList(PhaseOfCard(id(j))), id(j))
           /\ \A i \in 1..Len(cs) :
                /\ CardsLoaded(PhaseOfCard(id(i)))
                /\ cs[i] \in Range(phase_cards_memo[PhaseOfCard(id(i))].val)

C8_Witness ==
    /\ cards_memo.has /\ Len(cards_memo.val) = Cardinality(CardIds)
    /\ lastOp.op = "pipe.cards" /\ Len(lastOp.reqs) > 0
    /\ PhaseOfCard(cards_memo.val[1].identifier) = pipe.data[1]

----------------------------------------------------------------------------
(* C9: the requests of phase.cards. *)

\* The Phase's data holds a card list before any listing call exactly when
\* the list came embedded, and an embedded list means no listing call ever.
C9_ListingOnlyIfNotEmbedded ==
    \A p \in PhaseIds :
        /\ Embedded(p) => calls[<<"listing", p>>] = 0
        /\ (p \in lru /\ calls[<<"listing", p>>] = 0)
              => (phase_data[p].has <=> Embedded(p))

C9_RequestOrder ==
    LET o == lastOp'
    IN (o.op = "phase.cards" /\ ~phase_cards_memo[o.arg].has) =>
         LET p == o.arg
             list == RemoteCardList(p)
             expected ==
                (IF phase_data[p].has THEN <<>> ELSE << <<"GET", "listing", p>> >>)
                \o [i \in 1..Len(list) |-> <<"GET", "card", list[i]>>]
         IN /\ IsPrefix(Shape(o.reqs), expected)
            /\ AllOk(o.reqs) =>
                 /\ Shape(o.reqs) = expected
                 /\ o.ret = [i \in 1..Len(list) |-> Card(pipe.id, list[i])]
                 /\ phase_cards_memo'[p] = Memo(o.ret)

\* C9: an access to phase.cards that has to load issues GET
\* /phases/{id}/cards.json first if and only if the Phase's data lacks the
\* card list (on the first access: if and only if the list did not come
\* embedded), then one GET /cards/{card_id} per entry of the list, in list
\* order, and returns one Card of the same Pipe per entry; with an embedded
\* list the listing endpoint is never called.
C9_PhaseCardsRequests ==
    []C9_ListingOnlyIfNotEmbedded /\ [][C9_RequestOrder]_vars

\* phase.cards of the phase without an embedded list: the listing, then
\* its card.
C9_Witness ==
    /\ lastOp.op = "phase.cards" /\ ~lastOp.err
    /\ ~Embedded(lastOp.arg)
    /\ Shape(lastOp.reqs) =
         << <<"GET", "listing", lastOp.arg>> >>
         \o [i \in 1..Len(RemoteCardList(lastOp.arg)) |->
                <<"GET", "card", RemoteCardList(lastOp.arg)[i]>>]

----------------------------------------------------------------------------
(* C10: a lazy load aborted by a transport error. *)

\* C10 as stated: a failed access to pipe.phases, phase.cards or pipe.cards
\* memoizes nothing and leaves the objects as they were: the property's
\* memo slot is unset, the field cache and the phases' raw data are
\* unchanged, and so is every cache the next access reads (get_phase's,
\* the memo slots below the property), so that it repeats the whole load.
C10_FailedLoadLeavesNoTrace ==
    [][ \A op \in LoadOps : \A arg \in LoadArgs(op) :
          (lastOp'.op = op /\ lastOp'.arg = arg /\ lastOp'.err) =>
             /\ ~SlotSet(op, arg)'
             /\ field_cache' = field_cache
             /\ phase_data' = phase_data
             /\ lru' = lru
             /\ phases_memo' = phases_memo
             /\ phase_cards_memo' = phase_cards_memo ]_vars

C10_FailedLoad ==
    \A op \in LoadOps : \A arg \in LoadArgs(op) :
      (lastOp'.op = op /\ lastOp'.arg = arg /\ lastOp'.err) =>
         LET reqs == lastOp'.reqs
         IN /\ ~SlotSet(op, arg)'
            /\ field_cache' = field_cache
            /\ values_memo' = values_memo
            \* what was fetched before the error is kept
            /\ \A i \in 1..Len(reqs) :
                 /\ (reqs[i].ok /\ reqs[i].kind = "phase") => reqs[i].id \in lru'
                 /\ (reqs[i].ok /\ reqs[i].kind = "listing")
                       => phase_data'[reqs[i].id] = Memo(RemoteCardList(reqs[i].id))
            /\ lru \subseteq lru'
            /\ \A p \in lru : phase_data[p].has => phase_data'[p] = phase_data[p]
            \* so the next access issues what the failed one had to, less
            \* the fetches whose result was kept
            /\ Range(FetchesLeft(op, arg)') \subseteq Range(FetchesLeft(op, arg))

\* What an access has left to fetch is what no cache below it holds, and a
\* load that returns never returns a partial list.
C10_NextAccess ==
    /\ pipe.built =>
         \A op \in LoadOps : \A arg \in (IF op = "phase.cards" THEN lru ELSE {None}) :
            NextFetches(op, arg) = FetchesLeft(op, arg)
    /\ (lastOp.op = "pipe.phases" /\ ~lastOp.err) => lastOp.ret = pipe.data
    /\ (lastOp.op = "phase.cards" /\ ~lastOp.err)
          => Len(lastOp.ret) = Len(RemoteCardList(lastOp.arg))
    /\ (lastOp.op = "pipe.cards" /\ ~lastOp.err)
          => Len(lastOp.ret) = Cardinality(CardIds)
    /\ phases_memo.has => phases_memo.val = pipe.data
    /\ cards_memo.has => Len(cards_memo.val) = Cardinality(CardIds)
    /\ \A p \in PhaseIds : phase_cards_memo[p].has
          => Len(phase_cards_memo[p].val) = Len(RemoteCardList(p))

\* C10 as amended: a failed access to pipe.phases, phase.cards or
\* pipe.cards leaves the property's memo slot unset and the field cache
\* unchanged, and no later access returns a partial list; but what was
\* fetched before the error is kept (the Phase in get_phase's cache, the
\* card listing in the Phase's data, the cards of every phase whose card
\* load completed), and the next access issues only the fetches of the
\* load that no cache holds.
C10_FailedLoadKeepsFetched == []C10_NextAccess /\ [][C10_FailedLoad]_vars

\* phase.cards failed on a card after the listing had come: the listing
\* stays in the Phase's data and the slot is unset.
C10_Witness ==
    /\ lastOp.op = "phase.cards" /\ lastOp.err
    /\ ~Embedded(lastOp.arg)
    /\ Len(lastOp.reqs) > 1
    /\ phase_data[lastOp.arg].has
    /\ ~phase_cards_memo[lastOp.arg].has

----------------------------------------------------------------------------
(* C4: Card.values. *)

\* The field values of a card's history, oldest first, and of its current
\* phase, as (field id, value) pairs.
HistoryPairs(c) ==
    LET RECURSIVE flat(_)
        flat(ds) == IF ds = <<>> THEN <<>>
                    ELSE [j \in 1..Len(Head(ds).field_values) |->
                            <<Head(ds).field_values[j].field_id,
                              Head(ds).field_values[j].value>>]
                         \o flat(Tail(ds))
    IN flat(RemoteCardData(c).other_phase_details)

CurrentPairs(c) ==
    LET fvs == RemoteCardData(c).current_phase_detail.field_values
    IN [j \in 1..Len(fvs) |-> <<fvs[j].id, fvs[j].value>>]

\* The value of the last pair of pairs whose field has label l.
LastFor(pairs, l) ==
    LET hits == {j \in 1..Len(pairs) : LabelOf(pairs[j][1]) = l}
    IN pairs[CHOOSE j \in hits : \A k \in hits : k <= j][2]

PairLabels(pairs) == {LabelOf(pairs[j][1]) : j \in 1..Len(pairs)}

\* C4: the values of a card map the label of every field value of the card
\* (None for a field no phase defines) to a value: the current phase's
\* value for a label the current phase carries, whatever the history says,
\* and the latest historical value for a label only the history carries.
C4_CurrentPhaseWins ==
    \A c \in DOMAIN values_memo :
        LET v == values_memo[c]
        IN /\ DOMAIN v = PairLabels(HistoryPairs(c)) \cup PairLabels(CurrentPairs(c))
           /\ \A l \in DOMAIN v :
                v[l] = IF l \in PairLabels(CurrentPairs(c))
                       THEN LastFor(CurrentPairs(c), l)
                       ELSE LastFor(HistoryPairs(c), l)

\* A card whose history and current phase carry values of two different
\* fields with the same label; the value kept is the current phase's.
C4_Witness ==
    \E c \in DOMAIN values_memo :
        \E h \in Range(HistoryPairs(c)), k \in Range(CurrentPairs(c)) :
            /\ h[1] # k[1] /\ LabelOf(h[1]) = LabelOf(k[1])
            /\ h[2] # k[2]
            /\ values_memo[c][LabelOf(k[1])] = k[2]
            /\ lastOp.op = "card.values" /\ lastOp.arg = c

----------------------------------------------------------------------------
(* C5: a non-success response. *)

\* The memo slot, if any, that the operation of record o fills.
Filled(o) ==
    CASE o.op = "pipe.phases" -> phases_memo.has
      [] o.op = "phase.cards" -> phase_cards_memo[o.arg].has
      [] o.op = "pipe.cards" -> cards_memo.has
      [] o.op = "card.values" -> o.arg \in DOMAIN values_memo
      [] o.op = "get_phase" -> o.arg \in lru
      [] o.op = "get_pipe" -> pipe.built
      [] OTHER -> FALSE

C5_FailedRequestIsLast ==
    LET reqs == lastOp.reqs
    IN /\ \A i \in 1..Len(reqs) :
            ~reqs[i].ok =>
               /\ i = Len(reqs)
               /\ \A j \in 1..(i - 1) : Shape(reqs)[j] # Shape(reqs)[i]
               /\ lastOp.err
               /\ lastOp.ret = HTTPError
               /\ ~Filled(lastOp)
       /\ lastOp.err => (reqs # <<>> /\ ~reqs[Len(reqs)].ok)

C5_NothingReturned ==
    lastOp'.err => (pipe' = pipe /\ created' = created /\ failures' = failures + 1)

\* C5: a request answered with a non-success status is the last request of
\* its operation and was issued once (no earlier request of the operation
\* asked for the same thing); the operation ends with the HTTP error and
\* returns no object: get_pipe leaves no Pipe, a lazy property stays
\* unset, create_card adds no Card.  An operation ends with the HTTP error
\* only when its last request failed.
C5_ErrorPropagates == []C5_FailedRequestIsLast /\ [][C5_NothingReturned]_vars

\* get_pipe got a non-success response: one request, the error, no Pipe.
C5_Witness ==
    /\ lastOp.op = "get_pipe" /\ lastOp.err /\ lastOp.ret = HTTPError
    /\ Len(lastOp.reqs) = 1 /\ ~lastOp.reqs[1].ok
    /\ ~pipe.built

\* A caller of the operations that C5 names.
NextTransport ==
    \/ \E i \in PipeIds : get_pipe(i)
    \/ \E p \in PhaseIds : GetPhase(p)
    \/ \E p \in PhaseIds : PhaseCards(p)
    \/ \E v \in ValueDicts : CreateCard("title", v)
    \/ \E m \in Methods : ClientCall(m)

SpecTransport == Init /\ [][NextTransport]_vars

====
